---- MODULE Spec2Model ----
(***************************************************************************)
(* Model of the Airtable sync job (src/airtable_sync_with_links.py): the   *)
(* value normalizer, the lookup reconciler and the firm upsert engine,     *)
(* run against a model of the three remote tables.                         *)
(*                                                                         *)
(* Text is modelled character by character: a Python str is a sequence of  *)
(* one-character strings, so strip(), lower(), split() and startswith()    *)
(* are computed, not assumed.  Python's None, True and False are the       *)
(* one-element sequences None, PyTrue and PyFalse, whose single element is *)
(* a multi-character marker no str can contain.                            *)
(***************************************************************************)
EXTENDS Integers, Sequences, FiniteSets, TLC

(***************************************************************************)
(* Bounds of the model.                                                    *)
(***************************************************************************)
\* longest CSV file, in data rows
MaxRows == 2
\* most runs of the job in one behaviour (SpecRerun)
MaxRuns == 2
\* most remote calls that fail in one behaviour
MaxFailures == 2

(***************************************************************************)
(* Python values.                                                          *)
(***************************************************************************)
None == <<"None">>
PyTrue == <<"True">>
PyFalse == <<"False">>

UpperAlpha == <<"A","B","C","D","E","F","G","H","I","J","K","L","M",
                "N","O","P","Q","R","S","T","U","V","W","X","Y","Z">>
LowerAlpha == <<"a","b","c","d","e","f","g","h","i","j","k","l","m",
                "n","o","p","q","r","s","t","u","v","w","x","y","z">>

\* str.lower() on one character
LowerChar(c) ==
    IF \E i \in 1..Len(UpperAlpha) : UpperAlpha[i] = c
    THEN LowerAlpha[CHOOSE i \in 1..Len(UpperAlpha) : UpperAlpha[i] = c]
    ELSE c

\* str.lower()
Lower(s) == [i \in 1..Len(s) |-> LowerChar(s[i])]

\* the characters str.strip() removes
IsSpace(c) == c \in {" ", "\t", "\n", "\r"}

RECURSIVE LStrip(_)
LStrip(s) == IF s # <<>> /\ IsSpace(Head(s)) THEN LStrip(Tail(s)) ELSE s

RECURSIVE RStrip(_)
RStrip(s) ==
    IF s # <<>> /\ IsSpace(s[Len(s)]) THEN RStrip(SubSeq(s, 1, Len(s) - 1)) ELSE s

\* str.strip()
Strip(s) == RStrip(LStrip(s))

\* str.startswith(prefix)
StartsWith(s, prefix) ==
    Len(s) >= Len(prefix) /\ SubSeq(s, 1, Len(prefix)) = prefix

\* the placeholder tokens ("tbd", "unknown", "n/a")
Placeholders ==
    { <<"t","b","d">>, <<"u","n","k","n","o","w","n">>, <<"n","/","a">> }

\* Python truthiness of a cell that is a str or None
Truthy(v) == v # None /\ v # <<>>

\* (v or "")
OrEmpty(v) == IF Truthy(v) THEN v ELSE <<>>

\* sanitize(v), v a str or None
sanitize(v) ==
    IF v = None THEN None
    ELSE LET s == Strip(v)
         IN IF s = <<>> \/ Lower(s) \in Placeholders THEN None ELSE s

\* str.replace(";", ",")
ReplaceSemicolons(s) == [i \in 1..Len(s) |-> IF s[i] = ";" THEN "," ELSE s[i]]

\* str.split(","): the pieces between commas, empty pieces included
RECURSIVE SplitComma(_, _)
SplitComma(s, cur) ==
    IF s = <<>> THEN <<cur>>
    ELSE IF Head(s) = "," THEN <<cur>> \o SplitComma(Tail(s), <<>>)
    ELSE SplitComma(Tail(s), Append(cur, Head(s)))

\* the item filter of parse_list_field
KeepItem(item) == item # <<>> /\ Lower(item) \notin (Placeholders \cup {<<>>})

\* [item for item in items if <KeepItem>], order kept
RECURSIVE FilterItems(_)
FilterItems(q) ==
    IF q = <<>> THEN <<>>
    ELSE IF KeepItem(Head(q)) THEN <<Head(q)>> \o FilterItems(Tail(q))
    ELSE FilterItems(Tail(q))

\* parse_list_field(value)
parse_list_field(value) ==
    IF ~Truthy(value) THEN <<>>
    ELSE LET pieces == SplitComma(ReplaceSemicolons(value), <<>>)
             items == [i \in 1..Len(pieces) |-> Strip(pieces[i])]
         IN FilterItems(items)

\* the elements of a sequence
Range(q) == { q[i] : i \in 1..Len(q) }

(***************************************************************************)
(* Dictionaries: a dict is a function whose domain is its key set.         *)
(***************************************************************************)
EmptyDict == [k \in {} |-> 0]

\* d[k] = v
Put(d, k, v) == [x \in (DOMAIN d) \cup {k} |-> IF x = k THEN v ELSE d[x]]

(***************************************************************************)
(* Module-level names of the sync job.                                     *)
(***************************************************************************)
firms_table == "Venture Capital Firms"
therapeutic_table == "Therapeutic Areas"
geography_table == "Geographic Regions"

\* FIELD_MAP, in its declared order: <<CSV column, remote field>>
FIELD_MAP ==
    << <<"Firm", "Firm Name">>,
       <<"Website", "Website">>,
       <<"HQ City/State", "Headquarters City/State">>,
       <<"AUM (USD)", "Assets Under Management (USD)">>,
       <<"Typical Check Size (USD)", "Typical Check Size (USD)">>,
       <<"Description", "Description">>,
       <<"Verified", "Verified">> >>

\* the remote fields to_payload fills from FIELD_MAP
ScalarFields == { FIELD_MAP[i][2] : i \in 1..Len(FIELD_MAP) }

\* the remote relation fields to_payload may attach
RelationFields ==
    { "Therapeutic Areas of Focus", "Geography Focus", "Headquarters Country" }

\* the CSV columns the job reads
Columns ==
    { FIELD_MAP[i][1] : i \in 1..Len(FIELD_MAP) }
        \cup { "Therapeutic Areas", "Geography Focus", "HQ Country" }

\* the CSV column FIELD_MAP sends to a remote scalar field
CsvNameOf(airtable_name) ==
    FIELD_MAP[CHOOSE i \in 1..Len(FIELD_MAP) : FIELD_MAP[i][2] = airtable_name][1]

\* the literals "http", "true" and "false"
HttpToken == <<"h","t","t","p">>
TrueStr == <<"t","r","u","e">>
FalseStr == <<"f","a","l","s","e">>

\* compute_verified(row)
compute_verified(row) ==
    LET w == Lower(Strip(OrEmpty(row["Website"])))
        city == Lower(Strip(OrEmpty(row["HQ City/State"])))
    IN StartsWith(w, HttpToken) /\ city \notin ({<<>>} \cup Placeholders)

\* the body of the reader loop of load_csv_rows, for one CSV record
LoadRow(r) ==
    IF ~Truthy(r["Verified"])
    THEN [r EXCEPT !["Verified"] = IF compute_verified(r) THEN TrueStr ELSE FalseStr]
    ELSE r

\* load_csv_rows(path), given the file's records
load_csv_rows(file) == [i \in 1..Len(file) |-> LoadRow(file[i])]

\* the tokens the Verified coercion of to_payload accepts
TrueTokens == { TrueStr, <<"1">>, <<"y","e","s">>, <<"y">> }
FalseTokens == { FalseStr, <<"0">>, <<"n","o">>, <<"n">>, <<>> }

\* the Verified coercion of to_payload, applied to a sanitized str
CoerceVerified(v) ==
    LET v_lower == Lower(Strip(v))
    IN IF v_lower \in TrueTokens THEN PyTrue
       ELSE IF v_lower \in FalseTokens THEN PyFalse
       ELSE v

\* the value to_payload stores under one remote scalar field
ScalarValue(csv_row, airtable_name) ==
    LET v == sanitize(csv_row[CsvNameOf(airtable_name)])
    IN IF airtable_name = "Verified" /\ v # None THEN CoerceVerified(v) ELSE v

\* [m.get(item.lower()) for item in items if m.get(item.lower())]
RECURSIVE ResolveIds(_, _)
ResolveIds(items, m) ==
    IF items = <<>> THEN <<>>
    ELSE IF Lower(Head(items)) \in DOMAIN m
         THEN <<m[Lower(Head(items))]>> \o ResolveIds(Tail(items), m)
         ELSE ResolveIds(Tail(items), m)

\* the identifier list to_payload computes for one relation field
RelationIds(csv_row, field, therapeutic_map, geography_map) ==
    IF field = "Therapeutic Areas of Focus"
    THEN ResolveIds(parse_list_field(csv_row["Therapeutic Areas"]), therapeutic_map)
    ELSE IF field = "Geography Focus"
    THEN ResolveIds(parse_list_field(csv_row["Geography Focus"]), geography_map)
    ELSE ResolveIds(parse_list_field(csv_row["HQ Country"]), geography_map)

\* the relation fields to_payload attaches: those with a non-empty list
AttachedRelations(csv_row, therapeutic_map, geography_map) ==
    { f \in RelationFields :
        RelationIds(csv_row, f, therapeutic_map, geography_map) # <<>> }

\* to_payload(csv_row, therapeutic_map, geography_map)
to_payload(csv_row, therapeutic_map, geography_map) ==
    [f \in ScalarFields \cup AttachedRelations(csv_row, therapeutic_map, geography_map) |->
        IF f \in ScalarFields
        THEN ScalarValue(csv_row, f)
        ELSE RelationIds(csv_row, f, therapeutic_map, geography_map)]

\* firm_name and key_val of upsert_firms
firm_name_of(r) == Strip(OrEmpty(r["Firm"]))
key_val_of(r) == Lower(firm_name_of(r))

\* all_therapeutics of setup_linked_records
all_therapeutics(rows) ==
    UNION { Range(parse_list_field(rows[i]["Therapeutic Areas"])) : i \in 1..Len(rows) }

\* all_geographies | all_countries of setup_linked_records
all_regions(rows) ==
    UNION { Range(parse_list_field(rows[i]["Geography Focus"]))
              \cup Range(parse_list_field(rows[i]["HQ Country"])) : i \in 1..Len(rows) }

(***************************************************************************)
(* The remote store.  A lookup record is [id, name]; a firm record is      *)
(* [id, fields], fields a function on all ten remote fields in which an    *)
(* absent scalar is None and an absent relation is the empty list.         *)
(***************************************************************************)
\* the fields of a firm record with nothing set
NoFields == [f \in ScalarFields \cup RelationFields |->
                IF f \in ScalarFields THEN None ELSE <<>>]

\* the stored fields after a write of payload over old (fields not sent are kept)
Written(old, payload) ==
    [f \in ScalarFields \cup RelationFields |->
        IF f \in DOMAIN payload THEN payload[f] ELSE old[f]]

\* the identifier the store gives the next record of a table
NewId(table) == Len(table) + 1

\* firms_table.create(payload)
FirmsAfterCreate(table, payload) ==
    Append(table, [id |-> NewId(table), fields |-> Written(NoFields, payload)])

\* firms_table.update(id, payload)
FirmsAfterUpdate(table, id, payload) ==
    [i \in 1..Len(table) |->
        IF table[i].id = id
        THEN [table[i] EXCEPT !.fields = Written(table[i].fields, payload)]
        ELSE table[i]]

\* table.create({name_field: item})
LookupAfterCreate(table, item) ==
    Append(table, [id |-> NewId(table), name |-> item])

\* the name -> id dict a fetch loop builds from a lookup table (last record wins)
RECURSIVE IndexLookup(_, _)
IndexLookup(table, mapping) ==
    IF table = <<>> THEN mapping
    ELSE IndexLookup(Tail(table),
             IF Truthy(Head(table).name)
             THEN Put(mapping, Lower(Strip(Head(table).name)), Head(table).id)
             ELSE mapping)

\* the dict index_existing_firms builds from the firm table
RECURSIVE IndexFirms(_, _)
IndexFirms(table, existing) ==
    IF table = <<>> THEN existing
    ELSE IndexFirms(Tail(table),
             IF Truthy(Head(table).fields["Firm Name"])
             THEN Put(existing, Lower(Strip(Head(table).fields["Firm Name"])),
                      Head(table).id)
             ELSE existing)

\* to_create of get_or_create_lookup_table
ToCreate(items, mapping) == { item \in items : Lower(item) \notin DOMAIN mapping }

(***************************************************************************)
(* Inputs: the text of the CSV cells and the starting remote stores.       *)
(***************************************************************************)
Acme == <<"A","c","m","e">>
AcmeLowerSp == <<"a","c","m","e"," ">>
AcmeUpper == <<"A","C","M","E">>
Tbd == <<"T","B","D">>
Blank == <<" ">>
Onc == <<"O","n","c">>
OncTbd == <<"o","n","c",";"," ","T","B","D">>
OncUpperSp == <<" ","O","N","C">>
UsUpper == <<"U","S">>
UsLower == <<"u","s">>
HttpSite == <<"h","t","t","p",":","/","/","a">>
BareSite == <<"a",".","v","c">>
City == <<"S","F">>
Tok == <<"t","o","k">>
App == <<"a","p","p">>

\* Firm cells: a name, the same name in another case with a trailing blank,
\* a placeholder token, and a blank cell
FirmPool == { Acme, AcmeLowerSp, Tbd, Blank }
\* <<Therapeutic Areas cell, Geography Focus cell, HQ Country cell>>: one name
\* per table spelled in two cases, within a row and across rows, a
\* placeholder item, and an empty Geography Focus cell
LinkPool == { <<Onc, UsUpper, UsLower>>, <<OncTbd, <<>>, UsUpper>> }

\* a CSV record
Row(firm, website, city, verified, ta, geo, country) ==
    [c \in Columns |->
        CASE c = "Firm" -> firm
          [] c = "Website" -> website
          [] c = "HQ City/State" -> city
          [] c = "AUM (USD)" -> <<"5">>
          [] c = "Typical Check Size (USD)" -> None
          [] c = "Description" -> <<>>
          [] c = "Verified" -> verified
          [] c = "Therapeutic Areas" -> ta
          [] c = "Geography Focus" -> geo
          [] OTHER -> country]

\* the CSV records of the sync runs
RowPool ==
    { Row(f, HttpSite, City, <<>>, x[1], x[2], x[3]) : f \in FirmPool, x \in LinkPool }

\* the sequences of at most n elements of S
SeqUpTo(S, n) == UNION { [1..k -> S] : k \in 0..n }

\* the CSV files of the sync runs
CsvFiles == SeqUpTo(RowPool, MaxRows)

\* an empty base
EmptyStore ==
    [t \in {firms_table, therapeutic_table, geography_table} |-> <<>>]

\* a base already holding one record per table, named in other spellings than
\* the CSV uses; the firm is linked to both lookup records
SeededStore ==
    [t \in {firms_table, therapeutic_table, geography_table} |->
        IF t = firms_table
        THEN << [id |-> 1,
                 fields |-> [NoFields EXCEPT !["Firm Name"] = AcmeUpper,
                                             !["Therapeutic Areas of Focus"] = <<1>>,
                                             !["Geography Focus"] = <<1>>]] >>
        ELSE IF t = therapeutic_table
        THEN << [id |-> 1, name |-> OncUpperSp] >>
        ELSE << [id |-> 1, name |-> UsUpper] >>]

StorePool == { EmptyStore, SeededStore }

(***************************************************************************)
(* State.                                                                  *)
(***************************************************************************)
VARIABLES
    AIRTABLE_TOKEN,     \* os.getenv("AIRTABLE_TOKEN"): a str or None
    AIRTABLE_BASE_ID,   \* os.getenv("AIRTABLE_BASE_ID"): a str or None
    csv_exists,         \* os.path.exists(CSV_PATH)
    csv,                \* the records of the CSV file
    remote,             \* the three remote tables, by table name
    pc,                 \* where the job is
    rows,               \* rows of main
    mapping,            \* mapping of get_or_create_lookup_table
    to_create,          \* the part of to_create not yet iterated
    therapeutic_map,    \* therapeutic_map of main
    geography_map,      \* geography_map of main
    existing,           \* existing of upsert_firms
    idx,                \* idx of upsert_firms: the row the loop is at
    creates,            \* counters of upsert_firms
    updates,
    errors,
    calls,              \* history: every remote call issued, in order
    delayed,            \* history: time.sleep(0.21) ran after the last create/update call
    run,                \* history: which run of the job this is
    ended,              \* history: how each earlier run ended, and the store it left
    start               \* history: the store before the first run

vars == << AIRTABLE_TOKEN, AIRTABLE_BASE_ID, csv_exists, csv, remote, pc, rows,
           mapping, to_create, therapeutic_map, geography_map, existing, idx,
           creates, updates, errors, calls, delayed, run, ended, start >>

env == << AIRTABLE_TOKEN, AIRTABLE_BASE_ID, csv_exists, csv, start >>
lookup_locals == << mapping, to_create >>
lookup_maps == << therapeutic_map, geography_map >>
upsert_locals == << existing, idx, creates, updates, errors >>

\* the state of a process that has just been started
FreshProcess ==
    /\ pc = "startup"
    /\ rows = <<>>
    /\ mapping = EmptyDict
    /\ to_create = {}
    /\ therapeutic_map = EmptyDict
    /\ geography_map = EmptyDict
    /\ existing = EmptyDict
    /\ idx = 0
    /\ creates = 0
    /\ updates = 0
    /\ errors = 0
    /\ delayed = TRUE

Init ==
    /\ AIRTABLE_TOKEN \in { None, Tok }
    /\ AIRTABLE_BASE_ID \in { <<>>, App }
    /\ csv_exists \in BOOLEAN
    /\ csv \in (IF csv_exists THEN CsvFiles ELSE { <<>> })
    /\ remote \in StorePool
    /\ start = remote
    /\ FreshProcess
    /\ calls = <<>>
    /\ run = 1
    /\ ended = <<>>

(***************************************************************************)
(* The history of remote calls.                                            *)
(***************************************************************************)
\* one remote call: op is "fetch", "create" or "update"; name is the display
\* name sent (lookup creates, firm calls); key is the lower-cased natural key
\* the job looked the record up by; id is the identifier updated or returned
\* (0 when there is none); after_delay tells whether the delay had run since
\* the create or update call before this one
Call(op, table, name, key, id, ok, row, payload) ==
    [op |-> op, table |-> table, name |-> name, key |-> key, id |-> id,
     ok |-> ok, run |-> run, row |-> row, payload |-> payload,
     after_delay |-> delayed]

FetchCall(table, ok) == Call("fetch", table, None, <<>>, 0, ok, 0, EmptyDict)

\* the number of calls that failed so far
Failures == Cardinality({ i \in 1..Len(calls) : ~calls[i].ok })

\* a call may fail while the failure budget lasts
MayBe(ok) == ok \/ Failures < MaxFailures

(***************************************************************************)
(* Module startup and main.                                                *)
(***************************************************************************)
\* the test written with "and": one credential is enough to go on
CredentialsMissing_Both == ~Truthy(AIRTABLE_TOKEN) /\ ~Truthy(AIRTABLE_BASE_ID)

\* not AIRTABLE_TOKEN or not AIRTABLE_BASE_ID
CredentialsMissing == ~Truthy(AIRTABLE_TOKEN) \/ ~Truthy(AIRTABLE_BASE_ID)

\* lines 9-21: read the environment, raise SystemExit without credentials,
\* build the (lazy) table handles
Startup ==
    /\ pc = "startup"
    /\ pc' = IF CredentialsMissing THEN "aborted" ELSE "main"
    /\ UNCHANGED << env, remote, rows, lookup_locals, lookup_maps, upsert_locals,
                    calls, delayed, run, ended >>

\* main up to the call of setup_linked_records: SystemExit without the CSV
\* file, else load the rows
Main ==
    /\ pc = "main"
    /\ IF ~csv_exists
       THEN /\ pc' = "aborted"
            /\ rows' = rows
       ELSE /\ pc' = "ta_fetch"
            /\ rows' = load_csv_rows(csv)
    /\ UNCHANGED << env, remote, lookup_locals, lookup_maps, upsert_locals,
                    calls, delayed, run, ended >>

(***************************************************************************)
(* get_or_create_lookup_table, called twice by setup_linked_records.       *)
(***************************************************************************)
\* the table a reconciliation pass works on
PassTable == IF pc \in {"ta_fetch", "ta_create"} THEN therapeutic_table
             ELSE geography_table

\* the items a reconciliation pass is given
PassItems == IF pc \in {"ta_fetch", "ta_create"} THEN all_therapeutics(rows)
             ELSE all_regions(rows)

\* return mapping: the pass ends and its caller keeps the dict
PassReturns(m) ==
    IF pc \in {"ta_fetch", "ta_create"}
    THEN /\ therapeutic_map' = m
         /\ geography_map' = geography_map
         /\ pc' = "geo_fetch"
    ELSE /\ therapeutic_map' = therapeutic_map
         /\ geography_map' = m
         /\ pc' = "firms_fetch"

\* lines 65-77: fetch the table, index it, compute to_create; an exception of
\* table.all() is not caught anywhere and ends the process
FetchLookup(ok) ==
    /\ pc \in {"ta_fetch", "geo_fetch"}
    /\ MayBe(ok)
    /\ calls' = Append(calls, FetchCall(PassTable, ok))
    /\ IF ~ok
       THEN /\ pc' = "crashed"
            /\ UNCHANGED << lookup_locals, lookup_maps >>
       ELSE LET m == IndexLookup(remote[PassTable], EmptyDict)
                tc == ToCreate(PassItems, m)
            IN /\ mapping' = m
               /\ to_create' = tc
               /\ IF tc = {}
                  THEN PassReturns(m)
                  ELSE /\ pc' = IF pc = "ta_fetch" THEN "ta_create" ELSE "geo_create"
                       /\ UNCHANGED lookup_maps
    /\ UNCHANGED << env, remote, rows, upsert_locals, delayed, run, ended >>

\* whether time.sleep(0.21) of line 84 runs: it is inside the try block after
\* the call, so an exception of the call skips it
LookupSleepsAfter(ok) == ok

\* lines 79-86, one iteration: the next item of to_create (a list built by
\* iterating a set, so in any order), created, recorded and followed by the
\* delay, or its exception caught; after the last item the pass returns
CreateLookup(ok) ==
    /\ pc \in {"ta_create", "geo_create"}
    /\ MayBe(ok)
    /\ \E item \in to_create :
         LET id == IF ok THEN NewId(remote[PassTable]) ELSE 0
             m == IF ok THEN Put(mapping, Lower(item), id) ELSE mapping
         IN /\ calls' = Append(calls, Call("create", PassTable, item, Lower(item),
                                           id, ok, 0, EmptyDict))
            /\ remote' = IF ok
                         THEN [remote EXCEPT ![PassTable] = LookupAfterCreate(@, item)]
                         ELSE remote
            /\ delayed' = LookupSleepsAfter(ok)
            /\ mapping' = m
            /\ to_create' = to_create \ {item}
            /\ IF to_create \ {item} = {}
               THEN PassReturns(m)
               ELSE UNCHANGED << pc, lookup_maps >>
    /\ UNCHANGED << env, rows, upsert_locals, run, ended >>

(***************************************************************************)
(* upsert_firms.                                                           *)
(***************************************************************************)
\* lines 143-146: index_existing_firms and the counters; an exception of
\* firms_table.all() is not caught anywhere and ends the process
FetchFirms(ok) ==
    /\ pc = "firms_fetch"
    /\ MayBe(ok)
    /\ calls' = Append(calls, FetchCall(firms_table, ok))
    /\ IF ~ok
       THEN /\ pc' = "crashed"
            /\ UNCHANGED upsert_locals
       ELSE /\ pc' = "upsert"
            /\ existing' = IndexFirms(remote[firms_table], EmptyDict)
            /\ idx' = 1
            /\ creates' = 0
            /\ updates' = 0
            /\ errors' = 0
    /\ UNCHANGED << env, remote, rows, lookup_locals, lookup_maps, delayed, run, ended >>

\* if not firm_name: continue
SkipsRow(r) == firm_name_of(r) = <<>>

\* line 161 left out: the created record is not entered into existing
ExistingAfterCreate_Forgotten(ex, key_val, id) == ex

\* existing[key_val] = rec["id"]
ExistingAfterCreate(ex, key_val, id) == Put(ex, key_val, id)

\* the counter bumped before the call instead of after it: a failed call is
\* counted twice
CountersAfter_CountedFirst(known, ok, u, c, e) ==
    << IF known THEN u + 1 ELSE u,
       IF known THEN c ELSE c + 1,
       IF ok THEN e ELSE e + 1 >>

\* the counters <<updates, creates, errors>> after one pass through the try
\* statement: known is key_val in existing, ok is whether the call returned
CountersAfter(known, ok, u, c, e) ==
    IF ~ok THEN << u, c, e + 1 >>
    ELSE IF known THEN << u + 1, c, e >>
    ELSE << u, c + 1, e >>

\* whether time.sleep(0.21) of line 164 runs: it is the last statement of
\* the try block, so an exception of the call skips it
SleepsAfter(ok) == ok

\* lines 147-167, one iteration of the loop over the rows
UpsertRow(ok) ==
    /\ pc = "upsert"
    /\ idx <= Len(rows)
    /\ MayBe(ok)
    /\ idx' = idx + 1
    /\ LET r == rows[idx]
           key_val == key_val_of(r)
           payload == to_payload(r, therapeutic_map, geography_map)
           known == key_val \in DOMAIN existing
           id == IF known THEN existing[key_val]
                 ELSE IF ok THEN NewId(remote[firms_table]) ELSE 0
           counters == CountersAfter(known, ok, updates, creates, errors)
       IN IF SkipsRow(r)
          THEN UNCHANGED << remote, existing, creates, updates, errors, calls, delayed >>
          ELSE /\ calls' = Append(calls,
                       Call(IF known THEN "update" ELSE "create", firms_table,
                            payload["Firm Name"], key_val, id, ok, idx, payload))
               /\ remote' =
                    IF ~ok THEN remote
                    ELSE IF known
                    THEN [remote EXCEPT ![firms_table] = FirmsAfterUpdate(@, id, payload)]
                    ELSE [remote EXCEPT ![firms_table] = FirmsAfterCreate(@, payload)]
               /\ existing' = IF ok /\ ~known
                              THEN ExistingAfterCreate(existing, key_val, id)
                              ELSE existing
               /\ updates' = counters[1]
               /\ creates' = counters[2]
               /\ errors' = counters[3]
               /\ delayed' = SleepsAfter(ok)
    /\ UNCHANGED << env, pc, rows, lookup_locals, lookup_maps, run, ended >>

\* line 168 and the rest of main: the loop is over, the counters are returned
\* and printed
Return ==
    /\ pc = "upsert"
    /\ idx > Len(rows)
    /\ pc' = "done"
    /\ UNCHANGED << env, remote, rows, lookup_locals, lookup_maps, upsert_locals,
                    calls, delayed, run, ended >>

(***************************************************************************)
(* One run of the job, any remote call of which may fail.                  *)
(***************************************************************************)
Next ==
    \/ Startup
    \/ Main
    \/ \E ok \in BOOLEAN : FetchLookup(ok)
    \/ \E ok \in BOOLEAN : CreateLookup(ok)
    \/ \E ok \in BOOLEAN : FetchFirms(ok)
    \/ \E ok \in BOOLEAN : UpsertRow(ok)
    \/ Return

Spec == Init /\ [][Next]_vars

(***************************************************************************)
(* Runs in succession: the process may be terminated at any point, and the *)
(* job may be started again on the same CSV and the store the earlier run  *)
(* left.  No remote call fails here.                                       *)
(***************************************************************************)
Running ==
    pc \in { "startup", "main", "ta_fetch", "ta_create", "geo_fetch", "geo_create",
             "firms_fetch", "upsert" }

\* process termination (section 5 of the spec: the only cancellation)
Kill ==
    /\ Running
    /\ pc' = "killed"
    /\ UNCHANGED << env, remote, rows, lookup_locals, lookup_maps, upsert_locals,
                    calls, delayed, run, ended >>

\* the job is started again: a new process, nothing kept but the remote store
Restart ==
    /\ pc \in { "done", "killed" }
    /\ run < MaxRuns
    /\ run' = run + 1
    /\ ended' = Append(ended, [how |-> pc, remote |-> remote])
    /\ pc' = "startup"
    /\ rows' = <<>>
    /\ mapping' = EmptyDict
    /\ to_create' = {}
    /\ therapeutic_map' = EmptyDict
    /\ geography_map' = EmptyDict
    /\ existing' = EmptyDict
    /\ idx' = 0
    /\ creates' = 0
    /\ updates' = 0
    /\ errors' = 0
    /\ delayed' = TRUE
    /\ UNCHANGED << env, remote, calls >>

NextRerun ==
    \/ Startup
    \/ Main
    \/ FetchLookup(TRUE)
    \/ CreateLookup(TRUE)
    \/ FetchFirms(TRUE)
    \/ UpsertRow(TRUE)
    \/ Return
    \/ Kill
    \/ Restart

SpecRerun == Init /\ [][NextRerun]_vars

(***************************************************************************)
(* One run over a one-row CSV whose Website, HQ City/State and Verified    *)
(* cells range over the cases load_csv_rows and to_payload tell apart.     *)
(***************************************************************************)
WebsitePool ==
    { None, <<>>, HttpSite, BareSite, <<" ","H","T","T","P","S",":","/","/","a">> }
CityPool == { None, Blank, City, Tbd, <<"n","/","a"," ">> }
VerifiedPool ==
    { None, <<>>, Blank, Tbd, TrueStr, <<"N","o">>, <<" ","Y">>,
      <<"m","a","y","b","e">> }

InitVerified ==
    /\ AIRTABLE_TOKEN = Tok
    /\ AIRTABLE_BASE_ID = App
    /\ csv_exists = TRUE
    /\ csv \in { << Row(Acme, w, c, v, Onc, UsUpper, UsLower) >> :
                   w \in WebsitePool, c \in CityPool, v \in VerifiedPool }
    /\ remote = EmptyStore
    /\ start = remote
    /\ FreshProcess
    /\ calls = <<>>
    /\ run = 1
    /\ ended = <<>>

SpecVerified == InitVerified /\ [][Next]_vars

(***************************************************************************)
(* Vocabulary of the properties.                                           *)
(***************************************************************************)
\* the normalized (trimmed, lower-cased) form of a name
Normalized(name) == Lower(Strip(name))

\* the natural keys a lookup table holds
LookupKeys(table) ==
    { Normalized(table[i].name) : i \in { k \in 1..Len(table) : Truthy(table[k].name) } }

\* the natural keys the firm table holds
FirmKeys(table) ==
    { Normalized(table[i].fields["Firm Name"]) :
        i \in { k \in 1..Len(table) : Truthy(table[k].fields["Firm Name"]) } }

\* the positions in the history of the create and update calls on a table
Mutations(table) ==
    { i \in 1..Len(calls) : calls[i].table = table /\ calls[i].op # "fetch" }

\* the positions of the create calls on a table
Creates(table) == { i \in Mutations(table) : calls[i].op = "create" }

LookupTables == { therapeutic_table, geography_table }

\* the rows upsert_firms has gone past
Processed == IF pc \in {"upsert", "done"} THEN 1..(idx - 1) ELSE {}

\* the rows with a firm name that is not blank
NonBlank == { i \in 1..Len(rows) : Strip(OrEmpty(rows[i]["Firm"])) # <<>> }

\* the position in the history of the call this run issued for a row
CallOfRow(i) ==
    CHOOSE k \in Mutations(firms_table) : calls[k].row = i /\ calls[k].run = run

\* C1: within one run, a reconciliation pass never issues two create calls
\* whose names are equal after trimming and lower-casing, and never creates a
\* name whose normalized form the fetched table already holds.
C1_NoDuplicateLookupCreate ==
    \A t \in LookupTables :
        /\ \A i, j \in Creates(t) :
               i # j => Normalized(calls[i].name) # Normalized(calls[j].name)
        /\ \A i \in Creates(t) :
               Normalized(calls[i].name) \notin LookupKeys(start[t])

\* two rows of the file name one firm, in different spellings, the firm is
\* not in the store before the run, and the loop is past both
TwoRowsOneFirm(i, j) ==
    /\ i \in NonBlank /\ j \in NonBlank /\ i < j
    /\ j \in Processed
    /\ Normalized(rows[i]["Firm"]) = Normalized(rows[j]["Firm"])
    /\ \A k \in 1..(i - 1) : k \in NonBlank =>
           Normalized(rows[k]["Firm"]) # Normalized(rows[i]["Firm"])
    /\ Normalized(rows[i]["Firm"]) \notin FirmKeys(start[firms_table])

\* the first of the two rows is created, every later one updates the record
\* that create returned, and the name is created once
OneCreateThenUpdate(i, j) ==
    /\ calls[CallOfRow(i)].op = "create"
    /\ calls[CallOfRow(j)].op = "update"
    /\ calls[CallOfRow(j)].id = calls[CallOfRow(i)].id
    /\ Cardinality({ k \in Creates(firms_table) :
                       calls[k].key = Normalized(rows[i]["Firm"]) }) = 1

CallOfRowIn(i, r) ==
    CHOOSE k \in Mutations(firms_table) : calls[k].row = i /\ calls[k].run = r

\* the second run has completed after a first run that completed
SecondRunDone == pc = "done" /\ run = 2 /\ ended[1].how = "done"

\* C3: a second run on the same CSV after a completed first run, no call
\* failing, issues no create at all, issues exactly one update per row with a
\* non-blank firm name, against the identifier the first run used for that
\* row, and leaves the store as the first run left it.
C3_SecondRunIdempotent ==
    SecondRunDone =>
        /\ \A k \in 1..Len(calls) : calls[k].run = 2 => calls[k].op # "create"
        /\ \A i \in NonBlank :
               /\ Cardinality({ k \in Mutations(firms_table) :
                                  calls[k].row = i /\ calls[k].run = 2 }) = 1
               /\ calls[CallOfRowIn(i, 2)].op = "update"
               /\ calls[CallOfRowIn(i, 2)].id = calls[CallOfRowIn(i, 1)].id
        /\ remote = ended[1].remote

\* the natural keys one uninterrupted run leaves in a table: those the store
\* started with and those of the names the CSV supplies
UninterruptedKeys(t) ==
    LET file == load_csv_rows(csv)
    IN IF t = firms_table
       THEN FirmKeys(start[t]) \cup
            { Normalized(file[i]["Firm"]) :
                i \in { k \in 1..Len(file) : sanitize(file[k]["Firm"]) # None } }
       ELSE LookupKeys(start[t]) \cup
            { Normalized(n) : n \in IF t = therapeutic_table
                                    THEN all_therapeutics(file)
                                    ELSE all_regions(file) }

\* the natural keys a table holds
KeysIn(t) == IF t = firms_table THEN FirmKeys(remote[t]) ELSE LookupKeys(remote[t])

\* the second run has completed after a first run that was terminated
RerunAfterKillDone == pc = "done" /\ run = 2 /\ ended[1].how = "killed"

\* C4: when a run is terminated at any point and the job is then run to
\* completion on the same CSV, the store ends with the natural keys one
\* uninterrupted run would have left, and the re-run creates no record for a
\* natural key the terminated run had already created.
C4_RerunAfterKillSafe ==
    RerunAfterKillDone =>
        /\ \A t \in LookupTables \cup {firms_table} : KeysIn(t) = UninterruptedKeys(t)
        /\ \A i, j \in 1..Len(calls) :
               ( /\ calls[i].run = 1 /\ calls[j].run = 2
                 /\ calls[i].op = "create" /\ calls[j].op = "create"
                 /\ calls[i].table = calls[j].table )
               => calls[i].key # calls[j].key

\* the last call of the history, when there is one
LastCall == calls[Len(calls)]

\* the stored firm record with an identifier
FirmRecord(id) ==
    remote[firms_table][CHOOSE i \in 1..Len(remote[firms_table]) :
                            remote[firms_table][i].id = id]

\* C5: every update of an existing firm is a full overwrite: its payload
\* carries the seven scalar fields and the three relation fields whatever the
\* row holds, so that right after the update every field of the record is
\* what the row supplies (nothing older is kept).
C5_UpdateIsFullOverwrite ==
    /\ \A k \in Mutations(firms_table) :
           calls[k].op = "update" =>
               DOMAIN calls[k].payload = ScalarFields \cup RelationFields
    /\ ( /\ calls # <<>>
         /\ LastCall.table = firms_table /\ LastCall.op = "update" /\ LastCall.ok )
       => FirmRecord(LastCall.id).fields = Written(NoFields, LastCall.payload)

\* the Verified predicate as specified: Website present, non-empty and beginning with
\* the http scheme token, HQ City/State present and no placeholder
SpecifiedPredicate(r) ==
    /\ Truthy(r["Website"])
    /\ StartsWith(Normalized(r["Website"]), HttpToken)
    /\ Truthy(r["HQ City/State"])
    /\ Normalized(r["HQ City/State"]) \notin ({<<>>} \cup Placeholders)

\* a Verified cell copied as specified: a boolean for the accepted tokens,
\* else the text itself
SpecifiedCoercion(v) ==
    IF Normalized(v) \in TrueTokens THEN PyTrue
    ELSE IF Normalized(v) \in FalseTokens THEN PyFalse
    ELSE Strip(v)

\* the Verified value specified for a CSV record
SpecifiedVerified(r) ==
    IF Truthy(r["Verified"]) THEN SpecifiedCoercion(r["Verified"])
    ELSE IF SpecifiedPredicate(r) THEN PyTrue ELSE PyFalse

\* C6: the Verified value of every firm payload is the row's own Verified
\* cell, coerced to a boolean for the accepted tokens, when the cell is
\* present, and the computed predicate otherwise.
C6_VerifiedCopiedOrComputed ==
    \A k \in Mutations(firms_table) :
        calls[k].payload["Verified"] = SpecifiedVerified(csv[calls[k].row])

\* both credentials are set and the CSV file exists
Configured == Truthy(AIRTABLE_TOKEN) /\ Truthy(AIRTABLE_BASE_ID) /\ csv_exists

\* C7: without both credentials and the CSV file the job makes no remote
\* call: it is starting up or has aborted, and the history of calls is empty.
C7_NoCallUnlessConfigured ==
    ~Configured => (calls = <<>> /\ pc \in {"startup", "main", "aborted"})

\* C7 happens: the token is missing, everything else is there, and the job
\* has aborted without a call.
C7_Witness ==
    /\ ~Truthy(AIRTABLE_TOKEN) /\ Truthy(AIRTABLE_BASE_ID) /\ csv_exists
    /\ Len(csv) > 0
    /\ pc = "aborted"
    /\ calls = <<>>

\* the firm calls that failed
FailedFirmCalls == { k \in Mutations(firms_table) : ~calls[k].ok }

\* what holds of upsert_firms in every state
C8_Counted ==
    /\ \A k1, k2 \in Mutations(firms_table) : k1 < k2 => calls[k1].row < calls[k2].row
    /\ pc \in {"upsert", "done"} =>
           /\ { calls[k].row : k \in Mutations(firms_table) } = NonBlank \cap Processed
           /\ updates + creates + errors = Cardinality(NonBlank \cap Processed)
           /\ errors = Cardinality(FailedFirmCalls)
    /\ pc = "done" => Processed = 1..Len(rows)

\* what holds of every step of upsert_firms
C8_Step ==
    pc = "upsert" =>
        /\ pc' \in {"upsert", "done"}
        /\ (Len(calls') > Len(calls) /\ ~calls'[Len(calls')].ok) =>
               /\ errors' = errors + 1
               /\ existing' = existing
               /\ idx' = idx + 1

\* C8: whatever create and update calls fail, upsert_firms never aborts; it
\* attempts every row with a non-blank firm name exactly once, in file order;
\* a failed call adds one to the error count and leaves the index of existing
\* firms as it was; and updates + creates + errors is the number of rows with
\* a non-blank firm name.
C8_UpsertNeverAborts == []C8_Counted /\ [][C8_Step]_vars

\* C8 happens: the run is over, one firm call failed and another succeeded.
C8_Witness ==
    /\ pc = "done"
    /\ errors >= 1
    /\ updates + creates >= 1
    /\ FailedFirmCalls # {}

\* the lookup record with an identifier
LookupRecord(t, id) ==
    remote[t][CHOOSE i \in 1..Len(remote[t]) : remote[t][i].id = id]

\* the identifiers a payload links to a lookup table
LinkedIds(payload, t) ==
    UNION { Range(payload[f]) :
              f \in (DOMAIN payload) \cap
                    (IF t = therapeutic_table
                     THEN {"Therapeutic Areas of Focus"}
                     ELSE {"Geography Focus", "Headquarters Country"}) }

\* the dict main holds for a lookup table once its pass has returned
ReturnedMap(t) == IF t = therapeutic_table THEN therapeutic_map ELSE geography_map

\* the pass over a lookup table has returned
PassReturned(t) ==
    IF t = therapeutic_table
    THEN pc \in {"geo_fetch", "geo_create", "firms_fetch", "upsert", "done"}
    ELSE pc \in {"firms_fetch", "upsert", "done"}

\* C9: when the create call for a lookup name fails, the pass goes on (the
\* process does not crash on it), the name stays absent from the dict the
\* pass returns, and no firm payload built later in the run links a record of
\* that name.
C9_FailedLookupStaysAbsent ==
    \A k \in UNION { Creates(t) : t \in LookupTables } :
        ~calls[k].ok =>
            /\ pc = "crashed" => LastCall.op = "fetch"
            /\ PassReturned(calls[k].table) =>
                   calls[k].key \notin DOMAIN ReturnedMap(calls[k].table)
            /\ \A f \in Mutations(firms_table) :
                   \A id \in LinkedIds(calls[f].payload, calls[k].table) :
                       Normalized(LookupRecord(calls[k].table, id).name) # calls[k].key

\* the create and update calls on any table
AllMutations == UNION { Mutations(t) : t \in LookupTables \cup {firms_table} }

\* C10: the fixed delay is taken after every lookup create, firm create and
\* firm update, failed or not, so every such call but the first follows a
\* delay taken since the one before it.
C10_DelayAfterEveryCall ==
    /\ AllMutations # {} => delayed
    /\ \A k \in AllMutations : calls[k].after_delay

\* the rows whose firm name the Value Normalizer leaves non-empty: not blank
\* after trimming and no placeholder token
Named == { i \in 1..Len(rows) : sanitize(rows[i]["Firm"]) # None }

\* C11: upsert_firms skips every row whose firm name normalizes to empty (blank
\* after trimming, or a placeholder token in any casing): it issues no create
\* or update for such a row and counts nothing for it, so no firm call carries
\* an absent Firm Name.
C11_SkipsEmptyFirmName ==
    /\ \A k \in Mutations(firms_table) :
           /\ calls[k].row \in Named
           /\ calls[k].payload["Firm Name"] # None
    /\ pc \in {"upsert", "done"} =>
           updates + creates + errors = Cardinality(Named \cap Processed)


====
